---- MODULE Spec2Model ----
(***************************************************************************)
(* SplitSmart AI: the command reducer of App.handleSendMessage and the     *)
(* allocation of SummaryCard.summary, as a state machine.                  *)
(*                                                                         *)
(* Strings are sequences of one-character strings, so that toLowerCase and *)
(* includes are computed.  Amounts of a receipt are integers; the          *)
(* allocation computes on exact fractions <<numerator, denominator>>.      *)
(***************************************************************************)
EXTENDS Integers, Sequences, FiniteSets, TLC

\* undefined: an absent optional value is <<>>, a present one <<v>>; an absent
\* property is a field the record does not have; the null reference is 0
None == <<>>
Some(v) == <<v>>
NoRef == 0
Has(rec, field) == field \in DOMAIN rec

-----------------------------------------------------------------------------
(* Strings *)

LowerChar(c) ==
    CASE c = "A" -> "a"
      [] c = "B" -> "b"
      [] c = "C" -> "c"
      [] OTHER -> c

ToLower(s) == [i \in 1..Len(s) |-> LowerChar(s[i])]

\* String.prototype.includes: sub occurs in s as a contiguous run
Includes(s, sub) ==
    \E k \in 0..(Len(s) - Len(sub)) :
        \A j \in 1..Len(sub) : s[k + j] = sub[j]

\* Array.prototype.findIndex, 1-based; 0 stands for -1
FindIndex(seq, P(_)) ==
    IF \E i \in 1..Len(seq) : P(seq[i])
    THEN CHOOSE i \in 1..Len(seq) : P(seq[i]) /\ \A j \in 1..(i - 1) : ~P(seq[j])
    ELSE 0

-----------------------------------------------------------------------------
(* Numbers of the allocation: exact fractions *)

Abs(n) == IF n < 0 THEN -n ELSE n

RECURSIVE Gcd(_, _)
Gcd(a, b) == IF b = 0 THEN a ELSE Gcd(b, a % b)

Sign(n) == IF n > 0 THEN 1 ELSE IF n < 0 THEN -1 ELSE 0

\* a denominator of 0 is what a division by zero leaves: <<1, 0>> Infinity,
\* <<-1, 0>> -Infinity, <<0, 0>> NaN
Norm(n, d) ==
    IF d = 0 THEN <<Sign(n), 0>>
    ELSE LET s == IF d < 0 THEN -1 ELSE 1
             g == Gcd(Abs(n), Abs(d))
         IN  <<(s * n) \div g, (s * d) \div g>>

IsFinite(x) == x[2] # 0

R(i) == <<i, 1>>
RAdd(x, y) == Norm(x[1] * y[2] + y[1] * x[2], x[2] * y[2])
RSub(x, y) == Norm(x[1] * y[2] - y[1] * x[2], x[2] * y[2])
RMul(x, y) == Norm(x[1] * y[1], x[2] * y[2])
RDiv(x, y) == Norm(x[1] * y[2], x[2] * y[1])
RLt(x, y) == x[1] * y[2] < y[1] * x[2]
RLe(x, y) == x[1] * y[2] <= y[1] * x[2]
RMax(x, y) == IF RLt(x, y) THEN y ELSE x
RZero == R(0)

RECURSIVE RSum(_)
RSum(seq) == IF seq = <<>> THEN RZero ELSE RAdd(seq[1], RSum(Tail(seq)))

RECURSIVE ISum(_)
ISum(seq) == IF seq = <<>> THEN 0 ELSE seq[1] + ISum(Tail(seq))

-----------------------------------------------------------------------------
(* fixedContributions: an object, i.e. keys in insertion order *)

Keys(obj) == [i \in 1..Len(obj) |-> obj[i].k]
HasKey(obj, name) == \E i \in 1..Len(obj) : obj[i].k = name
Get(obj, name) == obj[CHOOSE i \in 1..Len(obj) : obj[i].k = name].v

-----------------------------------------------------------------------------
(* SummaryCard.summary *)

RECURSIVE Dedup(_)
\* keys of a Map in insertion order
Dedup(seq) ==
    IF seq = <<>> THEN <<>>
    ELSE LET rest == Dedup(SubSeq(seq, 1, Len(seq) - 1))
             x == seq[Len(seq)]
         IN  IF \E i \in 1..Len(rest) : rest[i] = x THEN rest ELSE Append(rest, x)

RECURSIVE Flatten(_)
Flatten(seqs) == IF seqs = <<>> THEN <<>> ELSE seqs[1] \o Flatten(Tail(seqs))

\* tempPeopleMap keys: names in order of first appearance in assignedTo
TempPeople(items) == Dedup(Flatten([i \in 1..Len(items) |-> items[i].assignedTo]))

Count(seq, x) == Cardinality({i \in 1..Len(seq) : seq[i] = x})

RECURSIVE Repeat(_, _)
Repeat(x, n) == IF n = 0 THEN <<>> ELSE <<x>> \o Repeat(x, n - 1)

\* person.items: the item once per occurrence of the name in its assignedTo
PersonItems(items, name) ==
    Flatten([i \in 1..Len(items) |-> Repeat(items[i], Count(items[i].assignedTo, name))])

\* person.rawSubtotal: price / splitCount per occurrence
RawSubtotal(items, name) ==
    LET mine == PersonItems(items, name)
    IN  RSum([i \in 1..Len(mine) |-> RDiv(R(mine[i].price), R(Len(mine[i].assignedTo)))])

\* as if the subtotal were used unguarded
SubtotalUnguarded(rd) == rd.subtotal

\* receiptData.subtotal || 1
SubtotalOr1(rd) == IF rd.subtotal = 0 THEN 1 ELSE rd.subtotal
DistributableTax(rd) == RMax(RZero, R(rd.total - rd.subtotal - rd.tip))
TaxRatio(rd) == RDiv(DistributableTax(rd), R(SubtotalOr1(rd)))
TipRatio(rd) == RDiv(R(rd.tip), R(SubtotalOr1(rd)))

\* peopleMap after Phase 1: totalOwed holds the raw total
PeopleMap(rd) ==
    LET names == TempPeople(rd.items)
    IN  [i \in 1..Len(names) |->
            LET raw == RawSubtotal(rd.items, names[i])
                taxShare == RMul(raw, TaxRatio(rd))
                tipShare == RMul(raw, TipRatio(rd))
            IN  [name |-> names[i],
                 items |-> PersonItems(rd.items, names[i]),
                 subtotalOwed |-> raw,
                 taxOwed |-> taxShare,
                 tipOwed |-> tipShare,
                 totalOwed |-> RAdd(RAdd(raw, taxShare), tipShare)]]

NetBill(rd) ==
    IF rd.discount = None THEN R(rd.total)
    ELSE IF rd.discount[1].type = "percentage"
         THEN RMul(R(rd.total), RSub(R(1), RDiv(R(rd.discount[1].value), R(100))))
         ELSE RMax(RZero, R(rd.total - rd.discount[1].value))

\* receiptData.fixedContributions || {}
FixedContribs(rd) ==
    IF rd.fixedContributions = None THEN <<>> ELSE rd.fixedContributions[1]

IsFixedPerson(rd, name) == HasKey(FixedContribs(rd), name)

\* fixedTotal: summed over peopleMap, not over fixedContributions
FixedTotal(rd) ==
    LET pm == PeopleMap(rd)
        fixedIdx == SelectSeq([i \in 1..Len(pm) |-> i],
                              LAMBDA i : IsFixedPerson(rd, pm[i].name))
    IN  ISum([j \in 1..Len(fixedIdx) |-> Get(FixedContribs(rd), pm[fixedIdx[j]].name)])

\* as if the weights were summed without tax and tip
NonFixedSubtotals(rd) ==
    LET pm == PeopleMap(rd)
        varIdx == SelectSeq([i \in 1..Len(pm) |-> i],
                            LAMBDA i : ~IsFixedPerson(rd, pm[i].name))
    IN  RSum([j \in 1..Len(varIdx) |-> pm[varIdx[j]].subtotalOwed])

NonFixedRawTotal(rd) ==
    LET pm == PeopleMap(rd)
        varIdx == SelectSeq([i \in 1..Len(pm) |-> i],
                            LAMBDA i : ~IsFixedPerson(rd, pm[i].name))
    IN  RSum([j \in 1..Len(varIdx) |-> pm[varIdx[j]].totalOwed])

\* as if the fixed amounts were not taken out of the pool
RemainingIsNetBill(rd) == RMax(RZero, NetBill(rd))

RemainingBillToSplit(rd) == RMax(RZero, RSub(NetBill(rd), R(FixedTotal(rd))))

\* as if a fixed amount were capped by the net bill
FinalAmountCapped(rd, person) ==
    IF IsFixedPerson(rd, person.name)
    THEN IF RLt(NetBill(rd), R(Get(FixedContribs(rd), person.name)))
         THEN NetBill(rd)
         ELSE R(Get(FixedContribs(rd), person.name))
    ELSE IF RLt(RZero, NonFixedRawTotal(rd))
         THEN RMul(RDiv(person.totalOwed, NonFixedRawTotal(rd)), RemainingBillToSplit(rd))
         ELSE RZero

FinalAmount(rd, person) ==
    IF IsFixedPerson(rd, person.name)
    THEN R(Get(FixedContribs(rd), person.name))
    ELSE IF RLt(RZero, NonFixedRawTotal(rd))
         THEN RMul(RDiv(person.totalOwed, NonFixedRawTotal(rd)), RemainingBillToSplit(rd))
         ELSE RZero

RECURSIVE InsertFirstDesc(_, _)
\* as if the sort put x before the elements equal to it
InsertFirstDesc(sorted, x) ==
    IF sorted = <<>> THEN <<x>>
    ELSE IF RLe(sorted[1].totalOwed, x.totalOwed)
         THEN <<x>> \o sorted
         ELSE <<sorted[1]>> \o InsertFirstDesc(Tail(sorted), x)

RECURSIVE InsertDesc(_, _)
\* stable: x goes after every element that does not sort strictly after it
InsertDesc(sorted, x) ==
    IF sorted = <<>> THEN <<x>>
    ELSE IF RLt(sorted[1].totalOwed, x.totalOwed)
         THEN <<x>> \o sorted
         ELSE <<sorted[1]>> \o InsertDesc(Tail(sorted), x)

RECURSIVE SortDesc(_)
\* Array.prototype.sort((a, b) => b.totalOwed - a.totalOwed), stable
SortDesc(seq) ==
    IF seq = <<>> THEN <<>>
    ELSE InsertDesc(SortDesc(SubSeq(seq, 1, Len(seq) - 1)), seq[Len(seq)])

Distributed(rd) ==
    LET pm == PeopleMap(rd)
    IN  [i \in 1..Len(pm) |->
            [pm[i] EXCEPT !.totalOwed = FinalAmount(rd, pm[i])] @@
            [isFixed |-> IsFixedPerson(rd, pm[i].name)]]

Summary(rd) == SortDesc(Distributed(rd))

UnassignedTotal(rd) ==
    LET free == SelectSeq(rd.items, LAMBDA i : Len(i.assignedTo) = 0)
    IN  ISum([j \in 1..Len(free) |-> free[j].price])

-----------------------------------------------------------------------------
(* The JavaScript heap: item objects, arrays of item references,           *)
(* fixedContributions objects and ReceiptData objects.  A reference is an  *)
(* index into the sequence of its kind.                                    *)

EmptyHeap == [objs |-> <<>>, arrs |-> <<>>, maps |-> <<>>, recs |-> <<>>]

\* the ReceiptData value a reference denotes
View(h, ref) ==
    LET rec == h.recs[ref]
        arr == h.arrs[rec.items]
    IN  [items |-> [i \in 1..Len(arr) |-> h.objs[arr[i]]],
         subtotal |-> rec.subtotal,
         tax |-> rec.tax,
         tip |-> rec.tip,
         total |-> rec.total,
         merchantName |-> rec.merchantName,
         currencySymbol |-> rec.currencySymbol,
         discount |-> rec.discount,
         fixedContributions |->
             IF rec.fixedContributions = NoRef THEN None
             ELSE Some(h.maps[rec.fixedContributions])]

ItemsOf(h, arrRef) == [i \in 1..Len(h.arrs[arrRef]) |-> h.objs[h.arrs[arrRef][i]]]
ItemNames(h, arrRef) == [i \in 1..Len(h.arrs[arrRef]) |-> h.objs[h.arrs[arrRef][i]].name]

-----------------------------------------------------------------------------
(* parseReceiptImage: hydration of an extraction result *)

\* Number(rawData.f || 0)
OrZero(rawData, f) == IF Has(rawData, f) THEN rawData[f] ELSE 0

\* as if the id were item-${Date.now()}
HydratedIdByTime(index, t) == <<"item", t>>

\* item-${index}-${Date.now()}
HydratedId(index, t) == <<"item", index, t>>

\* ts[i] is the value Date.now() returns for item i
Hydrate(h, rawData, ts) ==
    LET rawItems == IF Has(rawData, "items") THEN rawData.items ELSE <<>>
        n == Len(rawItems)
        base == Len(h.objs)
        objs == [i \in 1..n |->
                    [id |-> HydratedId(i - 1, ts[i]),
                     name |-> rawItems[i].name,
                     price |-> rawItems[i].price,
                     assignedTo |-> <<>>]]
        rec == [items |-> Len(h.arrs) + 1,
                subtotal |-> OrZero(rawData, "subtotal"),
                tax |-> OrZero(rawData, "tax"),
                tip |-> OrZero(rawData, "tip"),
                total |-> OrZero(rawData, "total"),
                merchantName |->
                    IF Has(rawData, "merchantName") THEN Some(rawData.merchantName) ELSE None,
                currencySymbol |->
                    IF Has(rawData, "currencySymbol") /\ rawData.currencySymbol # ""
                    THEN rawData.currencySymbol ELSE "$",
                discount |-> None,
                fixedContributions |-> NoRef]
    IN  [h |-> [objs |-> h.objs \o objs,
                arrs |-> Append(h.arrs, [i \in 1..n |-> base + i]),
                maps |-> h.maps,
                recs |-> Append(h.recs, rec)],
         ref |-> Len(h.recs) + 1]

-----------------------------------------------------------------------------
(* handleSendMessage: the setReceiptData updater.  env holds its locals:   *)
(* newItems (items), newTotal, newSubtotal, newTip, newDiscount,           *)
(* newFixedContributions (fixed), dataChanged, shouldReset; ticks are the  *)
(* advances of the clock seen by the coming Date.now() calls.              *)

\* let newItems = [...prevData.items]
CopyItems(h, arrRef) == [h EXCEPT !.arrs = Append(@, h.arrs[arrRef])]

\* let newFixedContributions = { ...prevData.fixedContributions }
CopyFixed(h, mapRef) ==
    [h EXCEPT !.maps = Append(@, IF mapRef = NoRef THEN <<>> ELSE h.maps[mapRef])]

\* as if the lookup had no exact pass
AssignTargetSubstring(names, itemName) ==
    LET q == ToLower(itemName)
    IN  FindIndex(names, LAMBDA n : Includes(ToLower(n), q) \/ Includes(q, ToLower(n)))

\* assign_items lookup: exact match first, then substring either way
AssignTarget(names, itemName) ==
    LET q == ToLower(itemName)
        exact == FindIndex(names, LAMBDA n : ToLower(n) = q)
    IN  IF exact = 0
        THEN FindIndex(names, LAMBDA n : Includes(ToLower(n), q) \/ Includes(q, ToLower(n)))
        ELSE exact

\* as if it were newItems[targetIndex].assignedTo = people
AssignInPlace(h, arrRef, targetIndex, people) ==
    [h EXCEPT !.objs[h.arrs[arrRef][targetIndex]].assignedTo = people]

\* newItems[targetIndex] = { ...newItems[targetIndex], assignedTo: people }
ReplaceAssigned(h, arrRef, targetIndex, people) ==
    LET arr == h.arrs[arrRef]
        old == h.objs[arr[targetIndex]]
    IN  [h EXCEPT !.objs = Append(@, [old EXCEPT !.assignedTo = people]),
                  !.arrs[arrRef] = SubSeq(arr, 1, targetIndex - 1) \o <<Len(h.objs) + 1>>
                                       \o SubSeq(arr, targetIndex + 1, Len(arr))]

\* as if a name that resolves to no item fell on the first item
AssignOneOrFirst(env, update) ==
    LET targetIndex == AssignTarget(ItemNames(env.h, env.items), update.itemName)
    IN  IF targetIndex # 0
        THEN [env EXCEPT !.h = ReplaceAssigned(env.h, env.items, targetIndex, update.people),
                         !.dataChanged = TRUE]
        ELSE IF Len(env.h.arrs[env.items]) > 0
             THEN [env EXCEPT !.h = ReplaceAssigned(env.h, env.items, 1, update.people),
                              !.dataChanged = TRUE]
             ELSE env

\* undefined.toLowerCase(), reached in the findIndex callback when there is
\* an item to call it with: a TypeError leaves the updater
ThrowIfItems(env) ==
    IF Len(env.h.arrs[env.items]) > 0 THEN [env EXCEPT !.threw = TRUE] ELSE env

AssignOne(env, update) ==
    IF ~Has(update, "itemName") THEN ThrowIfItems(env)
    ELSE LET targetIndex == AssignTarget(ItemNames(env.h, env.items), update.itemName)
         IN  IF targetIndex # 0
             THEN [env EXCEPT
                      !.h = ReplaceAssigned(env.h, env.items, targetIndex, update.people),
                      !.dataChanged = TRUE]
             ELSE env

RECURSIVE AssignAll(_, _)
AssignAll(env, updates) ==
    IF updates = <<>> \/ env.threw THEN env
    ELSE AssignAll(AssignOne(env, updates[1]), Tail(updates))

AssignItems(env, args) ==
    IF Has(args, "assignments") THEN AssignAll(env, args.assignments) ELSE env

\* split_item lookup: the first item whose name contains the query
SplitTarget(names, originalItemName) ==
    FindIndex(names, LAMBDA n : Includes(ToLower(n), ToLower(originalItemName)))

\* the value of the k-th coming Date.now()
Clock(env, k) == env.now + ISum(SubSeq(env.ticks, 1, k))
Advance(env, k) ==
    [env EXCEPT !.now = Clock(env, k), !.ticks = SubSeq(@, k + 1, Len(@))]

\* ${originalItem.id}-split-${idx}-${Date.now()}
SplitId(originalId, idx, t) == originalId \o <<"split", idx, t>>

\* newItems.splice(originalIndex, 1, ...createdItems)
Splice(arr, originalIndex, refs) ==
    SubSeq(arr, 1, originalIndex - 1) \o refs \o SubSeq(arr, originalIndex + 1, Len(arr))

SplitItem(env, args) ==
    IF ~Has(args, "originalItemName") THEN ThrowIfItems(env)
    ELSE
    LET originalIndex == SplitTarget(ItemNames(env.h, env.items), args.originalItemName)
    IN  IF originalIndex # 0 /\ Has(args, "newItems")
        THEN LET splitDetails == args.newItems
                 originalItem == env.h.objs[env.h.arrs[env.items][originalIndex]]
                 n == Len(splitDetails)
                 base == Len(env.h.objs)
                 createdItems ==
                     [i \in 1..n |->
                         [id |-> SplitId(originalItem.id, i - 1, Clock(env, i)),
                          name |-> splitDetails[i].name,
                          price |-> splitDetails[i].price,
                          assignedTo |-> IF Has(splitDetails[i], "people")
                                         THEN splitDetails[i].people ELSE <<>>]]
             IN  [Advance(env, n) EXCEPT
                     !.h = [@ EXCEPT !.objs = @ \o createdItems,
                                     !.arrs[env.items] =
                                         Splice(@, originalIndex, [i \in 1..n |-> base + i])],
                     !.dataChanged = TRUE]
        ELSE env

\* added-${Date.now()}
AddedId(t) == <<"added", t>>

\* as if the price were added to the subtotal alone
AddItemToSubtotal(env, args) ==
    LET newItem == [id |-> AddedId(Clock(env, 1)),
                    name |-> args.name,
                    price |-> args.price,
                    assignedTo |-> IF Has(args, "people") THEN args.people ELSE <<>>]
    IN  [Advance(env, 1) EXCEPT
            !.h = [@ EXCEPT !.objs = Append(@, newItem),
                            !.arrs[env.items] = Append(@, Len(env.h.objs) + 1)],
            !.subtotal = @ + args.price,
            !.dataChanged = TRUE]

AddItem(env, args) ==
    LET newItem == [id |-> AddedId(Clock(env, 1)),
                    name |-> args.name,
                    price |-> args.price,
                    assignedTo |-> IF Has(args, "people") THEN args.people ELSE <<>>]
    IN  [Advance(env, 1) EXCEPT
            !.h = [@ EXCEPT !.objs = Append(@, newItem),
                            !.arrs[env.items] = Append(@, Len(env.h.objs) + 1)],
            !.subtotal = @ + args.price,
            !.total = @ + args.price,
            !.dataChanged = TRUE]

\* as if a fixed discount were taken out of the total as well
ApplyDiscountToTotal(env, args) ==
    [env EXCEPT !.discount = Some([type |-> args.type, value |-> args.value]),
                !.total = IF args.type = "fixed" THEN @ - args.value ELSE @ - 1,
                !.dataChanged = TRUE]

ApplyDiscount(env, args) ==
    [env EXCEPT !.discount = Some([type |-> args.type, value |-> args.value]),
                !.dataChanged = TRUE]

\* obj[name] = amount: an existing key keeps its place
SetKey(obj, name, amount) ==
    IF HasKey(obj, name)
    THEN [i \in 1..Len(obj) |-> IF obj[i].k = name THEN [k |-> name, v |-> amount] ELSE obj[i]]
    ELSE Append(obj, [k |-> name, v |-> amount])

\* delete obj[name]
DeleteKey(obj, name) == SelectSeq(obj, LAMBDA e : e.k # name)

SetFixedContribution(env, args) ==
    [env EXCEPT !.h = [@ EXCEPT !.maps[env.fixed] = SetKey(@, args.name, args.amount)],
                !.dataChanged = TRUE]

\* as if the key were looked up without regard to case from the start
RemoveFixedIgnoringCase(env, args) ==
    LET obj == env.h.maps[env.fixed]
        key == FindIndex(Keys(obj), LAMBDA k : ToLower(k) = ToLower(args.name))
    IN  IF key # 0
        THEN [env EXCEPT !.h = [@ EXCEPT !.maps[env.fixed] = DeleteKey(@, obj[key].k)],
                         !.dataChanged = TRUE]
        ELSE env

RemoveFixedContribution(env, args) ==
    LET obj == env.h.maps[env.fixed]
    IN  IF HasKey(obj, args.name)
        THEN [env EXCEPT !.h = [@ EXCEPT !.maps[env.fixed] = DeleteKey(@, args.name)],
                         !.dataChanged = TRUE]
        ELSE LET key == FindIndex(Keys(obj), LAMBDA k : ToLower(k) = ToLower(args.name))
             IN  IF key # 0
                 THEN [env EXCEPT !.h = [@ EXCEPT !.maps[env.fixed] = DeleteKey(@, obj[key].k)],
                                  !.dataChanged = TRUE]
                 ELSE env

\* as if the tip in effect were not taken out of the total
UpdateTipOnTop(env, args) ==
    [env EXCEPT !.tip = args.amount,
                !.total = @ + args.amount,
                !.dataChanged = TRUE]

\* as if the total were left as it is
UpdateTipKeepingTotal(env, args) ==
    [env EXCEPT !.tip = args.amount,
                !.dataChanged = TRUE]

UpdateTip(env, args) ==
    LET oldTip == env.tip
    IN  [env EXCEPT !.tip = args.amount,
                    !.total = @ - oldTip + args.amount,
                    !.dataChanged = TRUE]

ResetReceipt(env) == [env EXCEPT !.shouldReset = TRUE]

ApplyCall(env, call) ==
    CASE call.name = "assign_items" -> AssignItems(env, call.args)
      [] call.name = "split_item" -> SplitItem(env, call.args)
      [] call.name = "add_item" -> AddItem(env, call.args)
      [] call.name = "apply_discount" -> ApplyDiscount(env, call.args)
      [] call.name = "set_fixed_contribution" -> SetFixedContribution(env, call.args)
      [] call.name = "remove_fixed_contribution" -> RemoveFixedContribution(env, call.args)
      [] call.name = "update_tip" -> UpdateTip(env, call.args)
      [] call.name = "reset_receipt" -> ResetReceipt(env)
      [] OTHER -> env

RECURSIVE ApplyCallsBackwards(_, _)
\* as if the commands were applied from the last to the first
ApplyCallsBackwards(env, calls) ==
    IF calls = <<>> \/ env.threw THEN env
    ELSE ApplyCallsBackwards(ApplyCall(env, calls[Len(calls)]),
                             SubSeq(calls, 1, Len(calls) - 1))

RECURSIVE ApplyCalls(_, _)
\* for (const call of toolCalls): no break, also after reset_receipt; an
\* exception ends it
ApplyCalls(env, calls) ==
    IF calls = <<>> \/ env.threw THEN env
    ELSE ApplyCalls(ApplyCall(env, calls[1]), Tail(calls))

\* the locals at the top of the updater
Locals(h, prevRef, t, ticks) ==
    LET prevData == h.recs[prevRef]
        h1 == CopyItems(h, prevData.items)
        h2 == CopyFixed(h1, prevData.fixedContributions)
    IN  [h |-> h2,
         items |-> Len(h1.arrs),
         total |-> prevData.total,
         subtotal |-> prevData.subtotal,
         tip |-> prevData.tip,
         discount |-> prevData.discount,
         fixed |-> Len(h2.maps),
         dataChanged |-> FALSE,
         shouldReset |-> FALSE,
         threw |-> FALSE,
         now |-> t,
         ticks |-> ticks]

\* return dataChanged ? { ...prevData, items: newItems, ... } : prevData
Returned(env, prevRef) ==
    IF env.dataChanged
    THEN [h |-> [env.h EXCEPT !.recs = Append(@,
                    [env.h.recs[prevRef] EXCEPT
                        !.items = env.items,
                        !.total = env.total,
                        !.subtotal = env.subtotal,
                        !.tip = env.tip,
                        !.discount = env.discount,
                        !.fixedContributions = env.fixed])],
          ref |-> Len(env.h.recs) + 1]
    ELSE [h |-> env.h, ref |-> prevRef]

\* setReceiptData(prevData => ...): the new heap, the returned state, the
\* flag the updater leaves in shouldReset, whether it threw (and returned
\* nothing), and the clock
Updater(h, prevRef, calls, t, ticks) ==
    IF prevRef = NoRef
    THEN [h |-> h, ref |-> NoRef, shouldReset |-> FALSE, threw |-> FALSE, now |-> t]
    ELSE LET env == ApplyCalls(Locals(h, prevRef, t, ticks), calls)
             ret == Returned(env, prevRef)
         IN  IF env.threw
             THEN [h |-> env.h, ref |-> prevRef, shouldReset |-> env.shouldReset,
                   threw |-> TRUE, now |-> env.now]
             ELSE [h |-> ret.h, ref |-> ret.ref, shouldReset |-> env.shouldReset,
                   threw |-> FALSE, now |-> env.now]

-----------------------------------------------------------------------------
(* Bounds and inputs *)

\* largest value of the clock
MaxNow == 1
\* most tool calls in one response of the translation service
MaxBatch == 2
\* most chat messages sent in one run
MaxSends == 2
\* most files processed in one run
MaxUploads == 2

Alice == <<"a", "l">>
Bob == <<"b", "o">>
BobUpper == <<"B", "o">>

Pizza == <<"a", "b">>
Cola == <<"a">>
Tea == <<"c">>

\* results of the extraction service
RawResults ==
    { [items |-> <<[name |-> Pizza, price |-> 20], [name |-> Cola, price |-> 10]>>,
       subtotal |-> 30, tax |-> 3, tip |-> 0, total |-> 33,
       merchantName |-> "Roma", currencySymbol |-> "EUR"],
      [items |-> <<[name |-> Cola, price |-> 10]>>, subtotal |-> 10, total |-> 10] }

Call(name, args) == [name |-> name, args |-> args]

AssignCall(itemName, people) ==
    Call("assign_items", [assignments |-> <<[itemName |-> itemName, people |-> people]>>])
SplitCall(originalItemName, newItems) ==
    Call("split_item", [originalItemName |-> originalItemName, newItems |-> newItems])
ResetCall == Call("reset_receipt", <<>>)

HalfCola == [name |-> Cola, price |-> 4, people |-> <<Alice>>]
HalfTea == [name |-> Tea, price |-> 6, people |-> <<>>]

\* tool calls of the translation service in a whole session
ToolCalls ==
    { SplitCall(Cola, <<HalfCola, HalfTea>>),
      Call("add_item", [name |-> Tea, price |-> 5]),
      Call("set_fixed_contribution", [name |-> Bob, amount |-> 15]),
      ResetCall }

\* tool calls of one batch applied to a receipt in use
BatchCalls ==
    ToolCalls \cup
    { AssignCall(Cola, <<Alice, Bob>>),
      AssignCall(Tea, <<>>),
      AssignCall(Cola, <<Bob, Bob>>),
      Call("add_item", [name |-> Cola, price |-> -5, people |-> <<Bob>>]),
      Call("apply_discount", [type |-> "percentage", value |-> 10]),
      Call("remove_fixed_contribution", [name |-> BobUpper]),
      Call("update_tip", [amount |-> 2]),
      Call("update_tip", [amount |-> -1]),
      Call("set_fixed_contribution", [name |-> Bob, amount |-> 20]) }

SeqsUpTo(S, n) == UNION {[1..k -> S] : k \in 0..n}

\* results of processChatCommand: toolCalls is undefined or a list of calls
Responses(calls, n) ==
    {[text |-> "ok"]} \cup {[text |-> "ok", toolCalls |-> b] : b \in SeqsUpTo(calls, n)}

HasCall(result, name) ==
    /\ Has(result, "toolCalls")
    /\ \E i \in 1..Len(result.toolCalls) : result.toolCalls[i].name = name

\* an upper bound of the Date.now() calls of a batch
NowCalls(call) ==
    CASE call.name = "add_item" -> 1
      [] call.name = "split_item" ->
            IF Has(call.args, "newItems") THEN Len(call.args.newItems) ELSE 0
      [] OTHER -> 0

BatchNowCalls(result) ==
    IF Has(result, "toolCalls")
    THEN ISum([i \in 1..Len(result.toolCalls) |-> NowCalls(result.toolCalls[i])])
    ELSE 0

\* advances of the clock at k successive readings of one synchronous handler,
\* which runs within a millisecond: the clock advances at most once
Ticks(t, k) ==
    {[i \in 1..k |-> 0]} \cup
    (IF t < MaxNow THEN {[i \in 1..k |-> IF i = j THEN 1 ELSE 0] : j \in 1..k} ELSE {})

\* whether React runs an updater inside setReceiptData or at the next render
\* shows only in what the handler then reads from shouldReset
Eagerness(result) == IF HasCall(result, "reset_receipt") THEN BOOLEAN ELSE {FALSE}

-----------------------------------------------------------------------------
(* App state *)

VARIABLES
    appState,        \* AppState
    receiptData,     \* NoRef (null) or a reference to a ReceiptData object
    heap,
    chatProcessing,
    chatInFlight,    \* processChatCommand calls awaited by handleSendMessage
    fileInFlight,    \* parseReceiptImage calls awaited by processFile
    now,             \* the last value read from Date.now()
    sends,           \* chat messages sent so far
    uploads,         \* files processed so far
    lastOp,          \* the handler that ran last, with its inputs
    prevData,        \* the state the last updater was given
    prevSnap,        \* ... and the value it had then
    props,           \* SummaryCard: receiptData prop of the last render
    summary,         \* SummaryCard: summary of the last render
    unassignedTotal  \* SummaryCard: unassignedTotal of the last render

vars == <<appState, receiptData, heap, chatProcessing, chatInFlight, fileInFlight,
          now, sends, uploads, lastOp, prevData, prevSnap, props, summary,
          unassignedTotal>>

NoOp == [op |-> "none"]

\* SummaryCard as rendered for a receipt
Card(rd) ==
    [props |-> Some(rd), summary |-> Some(Summary(rd)),
     unassignedTotal |-> Some(UnassignedTotal(rd))]

\* App renders SummaryCard in the SPLIT state only
Render(h, ref, st) ==
    IF st = "SPLIT" /\ ref # NoRef
    THEN Card(View(h, ref))
    ELSE [props |-> None, summary |-> None, unassignedTotal |-> None]

\* An exception of a state updater surfaces in the render of App; no
\* component of the tree catches it, so React unmounts the tree, and setState
\* of an unmounted component does nothing.
Mounted == appState # "UNMOUNTED"

Commit(h, ref, st) ==
    /\ heap' = h
    /\ receiptData' = ref
    /\ appState' = st
    /\ \E card \in {Render(h, ref, st)} :
        /\ props' = card.props
        /\ summary' = card.summary
        /\ unassignedTotal' = card.unassignedTotal

Init ==
    /\ appState = "UPLOAD"
    /\ receiptData = NoRef
    /\ heap = EmptyHeap
    /\ chatProcessing = FALSE
    /\ chatInFlight = 0
    /\ fileInFlight = 0
    /\ now = 0
    /\ sends = 0
    /\ uploads = 0
    /\ lastOp = NoOp
    /\ prevData = NoRef
    /\ prevSnap = None
    /\ props = None
    /\ summary = None
    /\ unassignedTotal = None

\* processFile up to the await of parseReceiptImage
ProcessFile ==
    /\ appState \in {"UPLOAD", "PROCESSING"}
    /\ uploads < MaxUploads
    /\ uploads' = uploads + 1
    /\ fileInFlight' = fileInFlight + 1
    /\ lastOp' = [op |-> "processFile"]
    /\ Commit(heap, receiptData, "PROCESSING")
    /\ UNCHANGED <<chatProcessing, chatInFlight, now, sends, prevData, prevSnap>>

\* processFile after parseReceiptImage resolved; the objects of a replaced
\* receipt are garbage
FileParsed(rawData, ticks) ==
    /\ Mounted
    /\ fileInFlight > 0
    /\ fileInFlight' = fileInFlight - 1
    /\ LET ts == [i \in 1..Len(ticks) |-> now + ISum(SubSeq(ticks, 1, i))]
           hyd == Hydrate(EmptyHeap, rawData, ts)
       IN  /\ now' = now + ISum(ticks)
           /\ Commit(hyd.h, hyd.ref, "SPLIT")
    /\ lastOp' = [op |-> "parsed", rawData |-> rawData]
    /\ prevData' = NoRef
    /\ prevSnap' = None
    /\ UNCHANGED <<chatProcessing, chatInFlight, sends, uploads>>

\* processFile when parseReceiptImage rejected
FileFailed ==
    /\ Mounted
    /\ fileInFlight > 0
    /\ fileInFlight' = fileInFlight - 1
    /\ lastOp' = [op |-> "parseFailed"]
    /\ Commit(heap, receiptData, "UPLOAD")
    /\ UNCHANGED <<chatProcessing, chatInFlight, now, sends, uploads, prevData, prevSnap>>

\* as if handleSubmit did not look at isProcessing
SendMessageWhileBusy ==
    /\ appState = "SPLIT"
    /\ receiptData # NoRef
    /\ sends < MaxSends
    /\ sends' = sends + 1
    /\ chatProcessing' = TRUE
    /\ chatInFlight' = chatInFlight + 1
    /\ lastOp' = [op |-> "send"]
    /\ Commit(heap, receiptData, appState)
    /\ UNCHANGED <<fileInFlight, now, uploads, prevData, prevSnap>>

\* ChatInterface.handleSubmit and handleSendMessage up to the await
SendMessage ==
    /\ appState = "SPLIT"
    /\ ~chatProcessing
    /\ receiptData # NoRef
    /\ sends < MaxSends
    /\ sends' = sends + 1
    /\ chatProcessing' = TRUE
    /\ chatInFlight' = chatInFlight + 1
    /\ lastOp' = [op |-> "send"]
    /\ Commit(heap, receiptData, appState)
    /\ UNCHANGED <<fileInFlight, now, uploads, prevData, prevSnap>>

\* handleSendMessage after processChatCommand resolved.  eager: React runs
\* the updater inside setReceiptData; otherwise it runs it at the next render,
\* after the handler has read shouldReset.  When the updater throws, the
\* render that would commit setChatProcessing(false) unmounts the tree
\* instead.
ChatReplied(result, ticks, eager) ==
    /\ Mounted
    /\ chatInFlight > 0
    /\ chatInFlight' = chatInFlight - 1
    /\ IF Has(result, "toolCalls") /\ Len(result.toolCalls) > 0
       THEN LET upd == Updater(heap, receiptData, result.toolCalls, now, ticks)
                shouldReset == eager /\ upd.shouldReset
            IN  /\ chatProcessing' = (upd.threw /\ chatProcessing)
                /\ lastOp' = [op |-> "reply", result |-> result, eager |-> eager,
                              updated |-> TRUE, returned |-> upd.ref,
                              threw |-> upd.threw]
                /\ now' = upd.now
                /\ prevData' = receiptData
                /\ prevSnap' = IF receiptData = NoRef THEN None
                               ELSE Some(View(heap, receiptData))
                /\ IF upd.threw
                   THEN Commit(EmptyHeap, NoRef, "UNMOUNTED")
                   ELSE IF shouldReset
                        THEN Commit(upd.h, NoRef, "UPLOAD")
                        ELSE Commit(upd.h, upd.ref, appState)
       ELSE /\ chatProcessing' = FALSE
            /\ lastOp' = [op |-> "reply", result |-> result, eager |-> eager,
                          updated |-> FALSE, returned |-> receiptData,
                          threw |-> FALSE]
            /\ Commit(heap, receiptData, appState)
            /\ UNCHANGED <<now, prevData, prevSnap>>
    /\ UNCHANGED <<fileInFlight, sends, uploads>>

\* resetApp, confirmed in the Start Over modal
ResetApp ==
    /\ appState = "SPLIT"
    /\ lastOp' = [op |-> "resetApp"]
    /\ prevData' = NoRef
    /\ prevSnap' = None
    /\ Commit(EmptyHeap, NoRef, "UPLOAD")
    /\ UNCHANGED <<chatProcessing, chatInFlight, fileInFlight, now, sends, uploads>>

\* as if only the assignments were removed
ClearUpdaterKeepingRules(h, prevRef) ==
    IF prevRef = NoRef THEN [h |-> h, ref |-> NoRef]
    ELSE LET prev == h.recs[prevRef]
             n == Len(h.arrs[prev.items])
         IN  [h |-> [objs |-> [i \in 1..n |->
                                 [h.objs[h.arrs[prev.items][i]] EXCEPT !.assignedTo = <<>>]],
                     arrs |-> <<[i \in 1..n |-> i]>>,
                     maps |-> <<IF prev.fixedContributions = NoRef THEN <<>>
                                ELSE h.maps[prev.fixedContributions]>>,
                     recs |-> <<[prev EXCEPT !.items = 1, !.fixedContributions = 1]>>],
              ref |-> 1]

\* the updater of requestClearAssignments.onConfirm; the objects of the
\* state it replaces are garbage
ClearUpdater(h, prevRef) ==
    IF prevRef = NoRef THEN [h |-> h, ref |-> NoRef]
    ELSE LET prev == h.recs[prevRef]
             n == Len(h.arrs[prev.items])
         IN  [h |-> [objs |-> [i \in 1..n |->
                                 [h.objs[h.arrs[prev.items][i]] EXCEPT !.assignedTo = <<>>]],
                     arrs |-> <<[i \in 1..n |-> i]>>,
                     maps |-> << <<>> >>,
                     recs |-> <<[prev EXCEPT !.items = 1,
                                             !.fixedContributions = 1,
                                             !.discount = None]>>],
              ref |-> 1]

\* Clear Assignments, confirmed in the modal, which the SPLIT screen renders
ClearAssignments ==
    /\ appState = "SPLIT"
    /\ lastOp' = [op |-> "clear"]
    /\ prevData' = NoRef
    /\ prevSnap' = IF receiptData = NoRef THEN None ELSE Some(View(heap, receiptData))
    /\ \E upd \in {ClearUpdater(heap, receiptData)} : Commit(upd.h, upd.ref, appState)
    /\ UNCHANGED <<chatProcessing, chatInFlight, fileInFlight, now, sends, uploads>>

Parses(raws) ==
    /\ fileInFlight > 0
    /\ \E rawData \in raws :
        \E ticks \in Ticks(now, IF Has(rawData, "items") THEN Len(rawData.items) ELSE 0) :
            FileParsed(rawData, ticks)

Replies(results) ==
    /\ chatInFlight > 0
    /\ \E result \in results :
        \E ticks \in Ticks(now, BatchNowCalls(result)) :
            \E eager \in Eagerness(result) : ChatReplied(result, ticks, eager)

Next ==
    \/ ProcessFile
    \/ Parses(RawResults)
    \/ FileFailed
    \/ SendMessage
    \/ Replies(Responses(ToolCalls, MaxBatch))
    \/ ResetApp
    \/ ClearAssignments

Spec == Init /\ [][Next]_vars

-----------------------------------------------------------------------------
(* Sessions of several uploads and messages, with few commands *)

SessionResults == {[items |-> <<[name |-> Cola, price |-> 10]>>, subtotal |-> 10, total |-> 10]}

SessionCalls ==
    { ResetCall,
      Call("update_tip", [amount |-> 2]),
      Call("assign_items", [assignments |-> <<[people |-> <<Alice>>]>>]) }

NextSession ==
    \/ ProcessFile
    \/ Parses(SessionResults)
    \/ FileFailed
    \/ SendMessage
    \/ Replies(Responses(SessionCalls, MaxBatch))
    \/ ResetApp

SpecSession == Init /\ [][NextSession]_vars

\* processChatCommand returns: its catch turns a failure into a text
SpecSessionFair == SpecSession /\ WF_vars(Replies(Responses(SessionCalls, MaxBatch)))

-----------------------------------------------------------------------------
(* One batch applied to a receipt in use *)

\* earlier batches of the session
EarlierBatches ==
    { <<>>,
      <<AssignCall(Pizza, <<Alice, Bob>>),
        Call("set_fixed_contribution", [name |-> Bob, amount |-> 15]),
        Call("set_fixed_contribution", [name |-> Alice, amount |-> 5]),
        Call("update_tip", [amount |-> 3])>> }

\* a receipt hydrated at time 0, an earlier batch applied, a message sent
InUse(rawData, earlier) ==
    LET n == IF Has(rawData, "items") THEN Len(rawData.items) ELSE 0
        hyd == Hydrate(EmptyHeap, rawData, [i \in 1..n |-> 0])
        upd == Updater(hyd.h, hyd.ref, earlier, 0, <<>>)
    IN  /\ heap = upd.h
        /\ receiptData = upd.ref
        /\ appState = "SPLIT"
        /\ chatProcessing = TRUE
        /\ chatInFlight = 1
        /\ fileInFlight = 0
        /\ now = 0
        /\ sends = 1
        /\ uploads = 1
        /\ lastOp = [op |-> "send"]
        /\ prevData = NoRef
        /\ prevSnap = None
        /\ props = Render(upd.h, upd.ref, "SPLIT").props
        /\ summary = Render(upd.h, upd.ref, "SPLIT").summary
        /\ unassignedTotal = Render(upd.h, upd.ref, "SPLIT").unassignedTotal

InitBatch == \E rawData \in RawResults : \E earlier \in EarlierBatches : InUse(rawData, earlier)

NextBatch == Replies(Responses(BatchCalls, MaxBatch))

SpecBatch == InitBatch /\ [][NextBatch]_vars

\* ... with Clear Assignments before or after it
NextBatchOrClear ==
    \/ NextBatch
    \/ ClearAssignments

SpecBatchOrClear == InitBatch /\ [][NextBatchOrClear]_vars

-----------------------------------------------------------------------------
(* One assign_items or split_item applied to a list of items *)

\* most items of such a list
MaxItems == 2

ResolveNames == {<<"a">>, <<"A", "b">>, <<"b">>, <<"c", "a", "b">>}
ResolveQueries == {<<"a">>, <<"a", "B">>, <<"b", "c">>, <<"c">>, <<>>}

HalfPizza == [name |-> Pizza, price |-> 5, people |-> <<Bob>>]

ResolveCalls ==
    {AssignCall(q, <<Alice>>) : q \in ResolveQueries} \cup
    {AssignCall(q, <<>>) : q \in ResolveQueries} \cup
    {SplitCall(q, <<HalfCola, HalfPizza>>) : q \in ResolveQueries}

\* a receipt of the named items, each assigned to Bob by its name
InitResolve ==
    \E names \in SeqsUpTo(ResolveNames, MaxItems) :
        InUse([items |-> [i \in 1..Len(names) |-> [name |-> names[i], price |-> 10]],
               subtotal |-> 10 * Len(names), total |-> 10 * Len(names)],
              [i \in 1..Len(names) |-> AssignCall(names[i], <<Bob>>)])

NextResolve ==
    Replies({[text |-> "ok", toolCalls |-> <<call>>] : call \in ResolveCalls})

SpecResolve == InitResolve /\ [][NextResolve]_vars

-----------------------------------------------------------------------------
(* One remove_fixed_contribution applied to a mapping of fixed contributions *)

\* most entries of such a mapping
MaxKeys == 2

FixedKeys == {<<"b", "o">>, <<"B", "o">>, <<"b", "O">>, <<"a", "l">>}
RemovedNames == {<<"b", "o">>, <<"B", "o">>, <<"B", "O">>, <<"a", "l">>, <<"z">>}

\* the keys of s differ from one another
Distinct(s) == \A i, j \in 1..Len(s) : i # j => s[i] # s[j]

\* a receipt whose fixed contributions were set in the order of keys
InitFixed ==
    \E rawData \in RawResults :
        \E keys \in {s \in SeqsUpTo(FixedKeys, MaxKeys) : Distinct(s)} :
            InUse(rawData,
                  [i \in 1..Len(keys) |->
                      Call("set_fixed_contribution", [name |-> keys[i], amount |-> 10 + i])])

NextFixed ==
    Replies({[text |-> "ok",
              toolCalls |-> <<Call("remove_fixed_contribution", [name |-> name])>>] :
                name \in RemovedNames})

SpecFixed == InitFixed /\ [][NextFixed]_vars

-----------------------------------------------------------------------------
(* Batches with names that resolve to no item *)

\* a name no item has, contains or is contained in
Nowhere == <<"z">>

AssignPairs(pairs) == Call("assign_items", [assignments |-> pairs])
Pair(itemName, people) == [itemName |-> itemName, people |-> people]

MissCalls ==
    { AssignCall(Nowhere, <<Alice>>),
      SplitCall(Nowhere, <<HalfCola, HalfTea>>),
      AssignPairs(<<Pair(Nowhere, <<Alice>>), Pair(Cola, <<Bob>>)>>),
      AssignPairs(<<Pair(Cola, <<Alice>>), Pair(Nowhere, <<Bob>>)>>),
      AssignCall(Cola, <<>>),
      SplitCall(Cola, <<HalfCola, HalfTea>>),
      Call("add_item", [name |-> Tea, price |-> 5]),
      Call("update_tip", [amount |-> 2]) }

NextMiss == Replies(Responses(MissCalls, MaxBatch))

SpecMiss == InitBatch /\ [][NextMiss]_vars

-----------------------------------------------------------------------------
(* Batches with commands that lack the arguments their handler reads *)

MalformedCalls ==
    { AssignPairs(<<[people |-> <<Alice>>]>>),
      AssignPairs(<<Pair(Cola, <<Alice>>), [people |-> <<Bob>>]>>),
      Call("split_item", [newItems |-> <<HalfCola, HalfTea>>]),
      Call("split_item", [originalItemName |-> Cola]),
      Call("assign_items", [note |-> Cola]),
      AssignCall(Cola, <<Bob>>),
      Call("add_item", [name |-> Tea, price |-> 5]),
      Call("update_tip", [amount |-> 2]) }

NextMalformed == Replies(Responses(MalformedCalls, MaxBatch))

SpecMalformed == InitBatch /\ [][NextMalformed]_vars

-----------------------------------------------------------------------------
(* A session that ends by unassigning every item by its name *)

QuarterPizza == [name |-> Pizza, price |-> 10, people |-> <<Alice, Bob>>]

\* tool calls of the batches before
ClearSetup ==
    { AssignCall(Pizza, <<Alice, Bob>>),
      Call("add_item", [name |-> Cola, price |-> 5, people |-> <<Bob>>]),
      Call("add_item", [name |-> Tea, price |-> 5, people |-> <<Alice>>]),
      SplitCall(Cola, <<HalfCola, HalfTea>>),
      SplitCall(Pizza, <<QuarterPizza, QuarterPizza>>) }

\* assign_items with one pair per item: the item's name, nobody
ClearAll(rd) ==
    AssignPairs([i \in 1..Len(rd.items) |-> Pair(rd.items[i].name, <<>>)])

ClearReplies ==
    /\ receiptData # NoRef
    /\ Replies({[text |-> "ok", toolCalls |-> <<ClearAll(View(heap, receiptData))>>]})

InitClear == \E rawData \in RawResults : InUse(rawData, <<>>)

NextClear ==
    \/ Replies(Responses(ClearSetup, MaxBatch))
    \/ SendMessage
    \/ ClearReplies

SpecClear == InitClear /\ [][NextClear]_vars

-----------------------------------------------------------------------------
(* A batch that splits an item and assigns the parts by their names *)

Soda == <<"d">>

PartNames == {Cola, Tea, Soda}
PartPrices == {<<10, 10>>, <<4, 6>>, <<5, 5>>, <<5, 10, 5>>}
PartPeople == {<<Alice, Bob>>, <<Bob>>}

\* newItems of split_item: names and prices, no people
PartLists ==
    UNION {{[i \in 1..Len(prices) |-> [name |-> names[i], price |-> prices[i]]] :
                names \in [1..Len(prices) -> PartNames]} : prices \in PartPrices}

\* assign_items with one pair per part: the part's name, people
AssignParts(parts, people) ==
    AssignPairs([i \in 1..Len(parts) |-> Pair(parts[i].name, people)])

SplitBatches ==
    {<<SplitCall(query, parts), AssignParts(parts, people)>> :
        query \in {Pizza, Cola}, parts \in PartLists, people \in PartPeople}

\* earlier batches of the session: who has which item
SplitEarlier ==
    { <<AssignCall(Pizza, <<Alice, Bob>>), AssignCall(Cola, <<Bob>>)>>,
      <<AssignCall(Cola, <<Alice, Bob>>)>>,
      <<AssignCall(Pizza, <<Bob>>)>> }

InitSplit == \E rawData \in RawResults : \E earlier \in SplitEarlier : InUse(rawData, earlier)

NextSplit == Replies({[text |-> "ok", toolCalls |-> batch] : batch \in SplitBatches})

SpecSplit == InitSplit /\ [][NextSplit]_vars

-----------------------------------------------------------------------------
(* Hydration of extraction results, with and without their optional fields *)

RawItems ==
    {[name |-> Pizza, price |-> 20], [name |-> Cola, price |-> 10], [name |-> Cola, price |-> 5]}

\* an extraction result with every field
FullResult(items) ==
    [items |-> items, subtotal |-> 30, tax |-> 3, tip |-> 2, total |-> 35,
     merchantName |-> "Roma", currencySymbol |-> "EUR"]

\* the JSON the extraction service may answer: any of the fields may be missing
HydrateResults ==
    {[f \in fields |-> FullResult(items)[f]] :
        fields \in SUBSET DOMAIN FullResult(<<>>), items \in SeqsUpTo(RawItems, MaxItems)}

\* the last file of a run handed to parseReceiptImage
InitHydrate ==
    /\ appState = "PROCESSING"
    /\ receiptData = NoRef
    /\ heap = EmptyHeap
    /\ chatProcessing = FALSE
    /\ chatInFlight = 0
    /\ fileInFlight = 1
    /\ now = 0
    /\ sends = 0
    /\ uploads = MaxUploads
    /\ lastOp = [op |-> "processFile"]
    /\ prevData = NoRef
    /\ prevSnap = None
    /\ props = None
    /\ summary = None
    /\ unassignedTotal = None

NextHydrate == Parses(HydrateResults)

SpecHydrate == InitHydrate /\ [][NextHydrate]_vars

-----------------------------------------------------------------------------
(* SummaryCard alone, mounted with a receipt *)

\* most items of such a receipt
MaxAllocItems == 2

Carol == <<"c", "a">>

\* the inputs are listed, and drawn in the order listed
AllocItems ==
    << [price |-> 10, assignedTo |-> <<Alice, Bob>>],
       [price |-> 10, assignedTo |-> <<Alice>>],
       [price |-> 10, assignedTo |-> <<Bob>>],
       [price |-> 20, assignedTo |-> <<Bob, Alice>>],
       [price |-> 0, assignedTo |-> <<Bob>>],
       [price |-> -10, assignedTo |-> <<Alice>>],
       [price |-> 10, assignedTo |-> <<>>],
       [price |-> -10, assignedTo |-> <<>>] >>
AllocAmounts ==
    << [subtotal |-> 30, tip |-> 0, total |-> 33],
       [subtotal |-> 30, tip |-> 3, total |-> 36],
       [subtotal |-> 0, tip |-> 3, total |-> 5],
       [subtotal |-> 0, tip |-> 0, total |-> 0],
       [subtotal |-> 20, tip |-> 0, total |-> 22] >>
AllocDiscounts ==
    << None,
       Some([type |-> "percentage", value |-> 10]),
       Some([type |-> "fixed", value |-> 5]),
       Some([type |-> "percentage", value |-> 150]) >>
AllocFixed ==
    << None,
       Some(<<[k |-> Bob, v |-> 15]>>),
       Some(<<[k |-> Alice, v |-> 5], [k |-> Bob, v |-> 6]>>),
       Some(<<[k |-> Bob, v |-> 40]>>),
       Some(<<[k |-> Carol, v |-> 5]>>) >>

\* a receipt of n items
AllocReceipt(choices, amounts, discount, fixed) ==
    [items |-> [i \in 1..Len(choices) |->
                    [id |-> HydratedId(i - 1, 0), name |-> Cola,
                     price |-> AllocItems[choices[i]].price,
                     assignedTo |-> AllocItems[choices[i]].assignedTo]],
     subtotal |-> amounts.subtotal,
     tax |-> 0,
     tip |-> amounts.tip,
     total |-> amounts.total,
     merchantName |-> None,
     currencySymbol |-> "$",
     discount |-> discount,
     fixedContributions |-> fixed]

InitAlloc ==
    /\ \E k \in 0..MaxAllocItems :
         \E choices \in [1..(MaxAllocItems - k) -> 1..Len(AllocItems)] :
            \E a \in 1..Len(AllocAmounts), d \in 1..Len(AllocDiscounts),
               f \in 1..Len(AllocFixed) :
                props = Some(AllocReceipt(choices, AllocAmounts[a], AllocDiscounts[d],
                                          AllocFixed[f]))
    /\ summary = None
    /\ unassignedTotal = None
    /\ appState = "SPLIT"
    /\ receiptData = NoRef
    /\ heap = EmptyHeap
    /\ chatProcessing = FALSE
    /\ chatInFlight = 0
    /\ fileInFlight = 0
    /\ now = 0
    /\ sends = 0
    /\ uploads = 0
    /\ lastOp = NoOp
    /\ prevData = NoRef
    /\ prevSnap = None

\* the first render of SummaryCard: both useMemo bodies run
MountCard ==
    /\ props # None
    /\ summary = None
    /\ summary' = Card(props[1]).summary
    /\ unassignedTotal' = Card(props[1]).unassignedTotal
    /\ lastOp' = [op |-> "mount"]
    /\ UNCHANGED <<appState, receiptData, heap, chatProcessing, chatInFlight, fileInFlight,
                   now, sends, uploads, prevData, prevSnap, props>>

NextAlloc == MountCard

SpecAlloc == InitAlloc /\ [][NextAlloc]_vars

-----------------------------------------------------------------------------
(* Properties of the allocation (SpecAlloc) *)

\* total after discount
NetOfDiscount(rd) ==
    IF rd.discount = None THEN <<rd.total, 1>>
    ELSE IF rd.discount[1].type = "percentage"
         THEN Norm(rd.total * (100 - rd.discount[1].value), 100)
         ELSE IF rd.total > rd.discount[1].value
              THEN <<rd.total - rd.discount[1].value, 1>>
              ELSE <<0, 1>>

AssignedNames(rd) ==
    UNION {{rd.items[i].assignedTo[j] : j \in 1..Len(rd.items[i].assignedTo)} :
              i \in 1..Len(rd.items)}

FixedOf(rd) == IF rd.fixedContributions = None THEN <<>> ELSE rd.fixedContributions[1]
FixedNames(rd) == {FixedOf(rd)[i].k : i \in 1..Len(FixedOf(rd))}
FixedAmount(rd, name) == FixedOf(rd)[CHOOSE i \in 1..Len(FixedOf(rd)) : FixedOf(rd)[i].k = name].v

SumOwed(out) == RSum([i \in 1..Len(out) |-> out[i].totalOwed])

\* the Phase-2 weight of an output entry
Weight(s) == RAdd(RAdd(s.subtotalOwed, s.taxOwed), s.tipOwed)

VariableWeightTotal(out) ==
    LET var == SelectSeq(out, LAMBDA s : ~s.isFixed)
    IN  RSum([i \in 1..Len(var) |-> Weight(var[i])])

\* the fixed amounts of the entries of the output
ListedFixedTotal(rd, out) ==
    LET fix == SelectSeq(out, LAMBDA s : s.isFixed)
    IN  ISum([i \in 1..Len(fix) |-> FixedAmount(rd, fix[i].name)])

AllFixedTotal(rd) == ISum([i \in 1..Len(FixedOf(rd)) |-> FixedOf(rd)[i].v])

ConservationWithFixedAsStated ==
    summary # None =>
        LET rd == props[1]
            out == summary[1]
        IN  ( /\ RLe(R(AllFixedTotal(rd)), NetOfDiscount(rd))
              /\ \/ \E i \in 1..Len(FixedOf(rd)) : FixedOf(rd)[i].v # 0
                 \/ \E i \in 1..Len(out) : ~out[i].isFixed /\ Weight(out[i]) # RZero )
            => SumOwed(out) = NetOfDiscount(rd)

\* C2 amended: whenever the fixed amounts of the listed participants sum to at
\* most netBill and the variable weights sum to more than 0, the totalOwed of
\* the output sum to netBill.
ConservationWithFixed ==
    summary # None =>
        LET rd == props[1]
            out == summary[1]
        IN  ( /\ RLe(R(ListedFixedTotal(rd, out)), NetOfDiscount(rd))
              /\ RLt(RZero, VariableWeightTotal(out)) )
            => SumOwed(out) = NetOfDiscount(rd)

\* a discounted bill shared by a fixed payer and a variable one
ConservationWithFixedWitness ==
    /\ summary # None
    /\ props[1].discount # None
    /\ RLe(R(ListedFixedTotal(props[1], summary[1])), NetOfDiscount(props[1]))
    /\ RLt(RZero, VariableWeightTotal(summary[1]))
    /\ \E i \in 1..Len(summary[1]) : summary[1][i].isFixed /\ summary[1][i].totalOwed # RZero

NoFixed(rd) == FixedOf(rd) = <<>>
SingleAssignees(rd) == \A i \in 1..Len(rd.items) : Len(rd.items[i].assignedTo) = 1

\* C3 as stated: with no fixed contributions and one assignee per item, the
\* totalOwed sum to netBill, and to total when there is no discount.
ConservationAsStated ==
    summary # None =>
        LET rd == props[1]
            out == summary[1]
        IN  (NoFixed(rd) /\ SingleAssignees(rd)) =>
                /\ SumOwed(out) = NetOfDiscount(rd)
                /\ rd.discount = None => SumOwed(out) = <<rd.total, 1>>

\* C3 amended: with no fixed contributions, one assignee per item, weights
\* that sum to more than 0 and a net bill of at least 0, the totalOwed sum to
\* netBill, and to total when there is no discount.
Conservation ==
    summary # None =>
        LET rd == props[1]
            out == summary[1]
        IN  ( /\ NoFixed(rd)
              /\ SingleAssignees(rd)
              /\ RLt(RZero, VariableWeightTotal(out))
              /\ RLe(RZero, NetOfDiscount(rd)) ) =>
                /\ SumOwed(out) = NetOfDiscount(rd)
                /\ rd.discount = None => SumOwed(out) = <<rd.total, 1>>

\* two people with one item each, tax and a discount
ConservationWitness ==
    /\ summary # None
    /\ NoFixed(props[1])
    /\ SingleAssignees(props[1])
    /\ Len(summary[1]) = 2
    /\ props[1].discount # None
    /\ props[1].total > props[1].subtotal
    /\ RLt(RZero, VariableWeightTotal(summary[1]))
    /\ RLt(RZero, NetOfDiscount(props[1]))

\* C4: every name in some assignedTo or among the keys of fixedContributions
\* has exactly one entry in the output, a key with isFixed = true, and the
\* pool that is split is netBill less the sum of all fixed amounts.
EveryParticipantListed ==
    summary # None =>
        LET rd == props[1]
            out == summary[1]
        IN  /\ \A name \in AssignedNames(rd) \cup FixedNames(rd) :
                    Cardinality({i \in 1..Len(out) : out[i].name = name}) = 1
            /\ \A i \in 1..Len(out) : out[i].isFixed = (out[i].name \in FixedNames(rd))
            /\ RemainingBillToSplit(rd) =
                    RMax(RZero, RSub(NetOfDiscount(rd), R(AllFixedTotal(rd))))

AllFinite(out) ==
    \A i \in 1..Len(out) :
        /\ IsFinite(out[i].subtotalOwed)
        /\ IsFinite(out[i].taxOwed)
        /\ IsFinite(out[i].tipOwed)
        /\ IsFinite(out[i].totalOwed)

RemainingPool(rd) ==
    LET left == RSub(NetOfDiscount(rd), <<AllFixedTotal(rd), 1>>)
    IN  IF RLt(RZero, left) THEN left ELSE RZero

\* C17: whenever the fixedContributions values sum to more than netBill,
\* every variable participant owes 0 and every fixed participant of the
\* output owes the committed amount.
OverCommitmentClamped ==
    summary # None =>
        LET rd == props[1]
            out == summary[1]
        IN  RLt(NetOfDiscount(rd), <<AllFixedTotal(rd), 1>>) =>
                \A i \in 1..Len(out) :
                    IF out[i].name \in FixedNames(rd)
                    THEN out[i].totalOwed = <<FixedAmount(rd, out[i].name), 1>>
                    ELSE out[i].totalOwed = RZero

\* C18: a variable participant owes (rawTotal / variableWeightTotal) *
\* remainingPool when variableWeightTotal > 0, and 0 otherwise, rawTotal
\* being rawSubtotal + taxOwed + tipOwed and variableWeightTotal its sum over
\* the variable participants.
PhaseFourShares ==
    summary # None =>
        LET rd == props[1]
            out == summary[1]
            total == VariableWeightTotal(out)
        IN  \A i \in 1..Len(out) :
                out[i].name \notin FixedNames(rd) =>
                    out[i].totalOwed =
                        IF RLt(RZero, total)
                        THEN RMul(RDiv(Weight(out[i]), total), RemainingPool(rd))
                        ELSE RZero

\* a comes before b in the order of first appearance in the assignedTo
\* lists, the items scanned in order
AppearsBefore(rd, a, b) ==
    \E i \in 1..Len(rd.items) : \E j \in 1..Len(rd.items[i].assignedTo) :
        /\ rd.items[i].assignedTo[j] = a
        /\ \A k \in 1..Len(rd.items) : \A l \in 1..Len(rd.items[k].assignedTo) :
                rd.items[k].assignedTo[l] = b => (i < k \/ (i = k /\ j < l))

\* C19: the output is in descending order of totalOwed, and entries of equal
\* totalOwed are in the order of first appearance of their names.
SortedStable ==
    summary # None =>
        LET rd == props[1]
            out == summary[1]
        IN  \A i, j \in 1..Len(out) :
                i < j =>
                    /\ RLe(out[j].totalOwed, out[i].totalOwed)
                    /\ out[i].totalOwed = out[j].totalOwed =>
                            AppearsBefore(rd, out[i].name, out[j].name)

\* Bob appears first and owes what Alice owes, more than 0
SortedStableWitness ==
    /\ summary # None
    /\ Len(summary[1]) = 2
    /\ summary[1][1].name = Bob
    /\ summary[1][2].name = Alice
    /\ summary[1][1].totalOwed = summary[1][2].totalOwed
    /\ RLt(RZero, summary[1][1].totalOwed)

PriceSum(items) == ISum([i \in 1..Len(items) |-> items[i].price])

\* a receipt without discount and fixed contributions whose subtotal is the
\* sum of its prices, with a tax of at least 0
PlainReceipt(rd) ==
    /\ rd.discount = None
    /\ NoFixed(rd)
    /\ rd.subtotal = PriceSum(rd.items)
    /\ rd.subtotal > 0
    /\ rd.total >= rd.subtotal + rd.tip

\* C20: unassignedTotal is the sum of the prices of the items with empty
\* assignedTo, and that amount is in nobody's totalOwed: on a plain receipt
\* everybody owes the share of the own items with its tax and tip.
UnassignedKeptApart ==
    summary # None =>
        LET rd == props[1]
            out == summary[1]
        IN  /\ unassignedTotal[1] =
                    PriceSum(SelectSeq(rd.items, LAMBDA i : i.assignedTo = <<>>))
            /\ PlainReceipt(rd) =>
                    \A i \in 1..Len(out) : out[i].totalOwed = Weight(out[i])

-----------------------------------------------------------------------------
(* Properties of the command batches *)

\* the last handler applied a batch, to a receipt
BatchApplied == lastOp.op = "reply" /\ lastOp.updated /\ prevData # NoRef
LastCalls == lastOp.result.toolCalls
\* the last batch was this one kind of call
OneCall(name) == BatchApplied /\ Len(LastCalls) = 1 /\ LastCalls[1].name = name

\* C6: after a batch that contains reset_receipt the session is the upload
\* state with no receipt, whatever the batch holds before or after it.
ResetReturnsToUpload ==
    (lastOp.op = "reply" /\ HasCall(lastOp.result, "reset_receipt")) =>
        /\ appState = "UPLOAD"
        /\ receiptData = NoRef
        /\ props = None

Lower(s) == [i \in 1..Len(s) |-> LowerChar(s[i])]
Within(sub, s) == \E i \in 1..(Len(s) + 1) : \E j \in 0..Len(s) : SubSeq(s, i, j) = sub
Least(S) == CHOOSE i \in S : \A j \in S : i <= j

\* the item-name resolution rule
RuleIndex(names, query) ==
    LET exact == {i \in 1..Len(names) : Lower(names[i]) = Lower(query)}
        partial == {i \in 1..Len(names) :
                        \/ Within(Lower(query), Lower(names[i]))
                        \/ Within(Lower(names[i]), Lower(query))}
    IN  IF exact # {} THEN Least(exact)
        ELSE IF partial # {} THEN Least(partial)
        ELSE 0

NamesOf(items) == [i \in 1..Len(items) |-> items[i].name]

\* C7: assign_items resolves itemName by the rule (an exact match first,
\* else the first item that contains the query or is contained in it),
\* replaces the assignedTo of that item by people and changes no other item.
AssignResolves ==
    OneCall("assign_items") =>
        LET pair == LastCalls[1].args.assignments[1]
            before == prevSnap[1].items
            after == View(heap, lastOp.returned).items
            k == RuleIndex(NamesOf(before), pair.itemName)
        IN  /\ Len(after) = Len(before)
            /\ \A i \in 1..Len(before) :
                    after[i] = IF i = k THEN [before[i] EXCEPT !.assignedTo = pair.people]
                               ELSE before[i]

\* the second item matches exactly, the first only as a substring, and the
\* second was cleared
AssignResolvesWitness ==
    /\ OneCall("assign_items")
    /\ LET pair == LastCalls[1].args.assignments[1]
           before == prevSnap[1].items
           after == View(heap, lastOp.returned).items
       IN  /\ Len(before) = 2
           /\ Lower(before[1].name) # Lower(pair.itemName)
           /\ Within(Lower(pair.itemName), Lower(before[1].name))
           /\ Lower(before[2].name) = Lower(pair.itemName)
           /\ before[2].name # pair.itemName
           /\ before[2].assignedTo # <<>>
           /\ after[2].assignedTo = <<>>

\* name, price and assignedTo of an item or of a part of a split
Shape(x, people) == [name |-> x.name, price |-> x.price, assignedTo |-> people]
ShapesOf(items) == [i \in 1..Len(items) |-> Shape(items[i], items[i].assignedTo)]

\* C8: split_item replaces the item that assign_items would resolve for the
\* same name.
SplitResolvesLikeAssign ==
    OneCall("split_item") =>
        LET args == LastCalls[1].args
            before == prevSnap[1].items
            after == View(heap, lastOp.returned).items
            k == AssignTarget(NamesOf(before), args.originalItemName)
            parts == [i \in 1..Len(args.newItems) |->
                        Shape(args.newItems[i], args.newItems[i].people)]
        IN  ShapesOf(after) =
                IF k = 0 THEN ShapesOf(before)
                ELSE SubSeq(ShapesOf(before), 1, k - 1) \o parts \o
                     SubSeq(ShapesOf(before), k + 1, Len(before))

\* C9: no two items of the receipt share an id.
ItemIdsUnique ==
    receiptData # NoRef =>
        LET items == View(heap, receiptData).items
        IN  \A i, j \in 1..Len(items) : i # j => items[i].id # items[j].id

\* the state the updater was given still has the value it had
Unmutated == View(heap, prevData) = prevSnap[1]

\* the returned state shares neither itself nor its items array nor its
\* fixedContributions object with the given one
Separate(ret, given) ==
    /\ ret # given
    /\ heap.recs[ret].items # heap.recs[given].items
    /\ heap.recs[ret].fixedContributions # heap.recs[given].fixedContributions

\* C10 as stated: a batch leaves the state it was given as it was, and
\* returns a separate value.
BatchImmutableAsStated ==
    BatchApplied => (Unmutated /\ Separate(lastOp.returned, prevData))

\* the call changes something in the receipt rd
AppliesTo(rd, call) ==
    CASE call.name = "assign_items" ->
            \E i \in 1..Len(call.args.assignments) :
                RuleIndex(NamesOf(rd.items), call.args.assignments[i].itemName) # 0
      [] call.name = "split_item" ->
            \E i \in 1..Len(rd.items) :
                Within(Lower(call.args.originalItemName), Lower(rd.items[i].name))
      [] call.name = "remove_fixed_contribution" ->
            \E name \in FixedNames(rd) : Lower(name) = Lower(call.args.name)
      [] call.name = "reset_receipt" -> FALSE
      [] OTHER -> TRUE

\* C10 amended: a batch leaves the state it was given as it was; it returns a
\* separate value when a call of the batch applies, and the given state
\* itself when none does.
BatchImmutable ==
    BatchApplied =>
        /\ Unmutated
        /\ IF \E i \in 1..Len(LastCalls) : AppliesTo(prevSnap[1], LastCalls[i])
           THEN Separate(lastOp.returned, prevData)
           ELSE lastOp.returned = prevData

\* a receipt with assignments and a fixed contribution, an assignment of
\* the batch replaced
BatchImmutableWitness ==
    /\ BatchApplied
    /\ lastOp.returned # prevData
    /\ prevSnap[1].fixedContributions # None
    /\ \E i \in 1..Len(prevSnap[1].items) :
            /\ prevSnap[1].items[i].assignedTo # <<>>
            /\ View(heap, lastOp.returned).items[i].name = prevSnap[1].items[i].name
            /\ View(heap, lastOp.returned).items[i].assignedTo
                    # prevSnap[1].items[i].assignedTo

\* the state before the last batch and the state it returned
Before == prevSnap[1]
After == View(heap, lastOp.returned)

CallsNamed(names) == SelectSeq(LastCalls, LAMBDA call : call.name \in names)
HasCallNamed(names) == CallsNamed(names) # <<>>

\* the entries of a fixedContributions mapping, absent or empty alike
Entries(rd) == {<<FixedOf(rd)[i].k, FixedOf(rd)[i].v>> : i \in 1..Len(FixedOf(rd))}

\* C11: a batch changes a field only through a command that names it;
\* assign_items changes nothing of an item but assignedTo, and
\* set_fixed_contribution sets the entry of its name and no other.
FramePreserved ==
    BatchApplied =>
        /\ After.tax = Before.tax
        /\ After.merchantName = Before.merchantName
        /\ After.currencySymbol = Before.currencySymbol
        /\ After.items # Before.items =>
                HasCallNamed({"assign_items", "split_item", "add_item"})
        /\ After.subtotal # Before.subtotal => HasCallNamed({"add_item"})
        /\ After.total # Before.total => HasCallNamed({"add_item", "update_tip"})
        /\ After.tip # Before.tip => HasCallNamed({"update_tip"})
        /\ After.discount # Before.discount => HasCallNamed({"apply_discount"})
        /\ Entries(After) # Entries(Before) =>
                HasCallNamed({"set_fixed_contribution", "remove_fixed_contribution"})
        /\ OneCall("assign_items") =>
                /\ Len(After.items) = Len(Before.items)
                /\ \A i \in 1..Len(Before.items) :
                        /\ After.items[i].id = Before.items[i].id
                        /\ After.items[i].name = Before.items[i].name
                        /\ After.items[i].price = Before.items[i].price
                /\ Cardinality({i \in 1..Len(Before.items) : After.items[i] # Before.items[i]})
                        <= Len(LastCalls[1].args.assignments)
        /\ OneCall("set_fixed_contribution") =>
                LET args == LastCalls[1].args
                IN  Entries(After) =
                        {e \in Entries(Before) : e[1] # args.name} \cup
                        {<<args.name, args.amount>>}

\* a fixed contribution overwritten next to another one, on a receipt with
\* assignments and a tip
FramePreservedWitness ==
    /\ OneCall("set_fixed_contribution")
    /\ <<Bob, 15>> \in Entries(Before)
    /\ <<Alice, 5>> \in Entries(Before)
    /\ Entries(After) = {<<Alice, 5>>, <<Bob, 20>>}
    /\ Before.tip # 0
    /\ \E i \in 1..Len(Before.items) : Before.items[i].assignedTo # <<>>

AddedShape(call) ==
    Shape(call.args, IF Has(call.args, "people") THEN call.args.people ELSE <<>>)
AddedPrices(calls) == ISum([i \in 1..Len(calls) |-> calls[i].args.price])

\* C12: each add_item appends one item of the given name, price and people
\* (none when omitted) at the end and adds price to subtotal and to total;
\* tax and tip stay.
AddItemAppends ==
    (BatchApplied /\ \A i \in 1..Len(LastCalls) : LastCalls[i].name = "add_item") =>
        /\ ShapesOf(After.items) =
                ShapesOf(Before.items) \o [i \in 1..Len(LastCalls) |-> AddedShape(LastCalls[i])]
        /\ \A i \in 1..Len(Before.items) : After.items[i] = Before.items[i]
        /\ After.subtotal = Before.subtotal + AddedPrices(LastCalls)
        /\ After.total = Before.total + AddedPrices(LastCalls)
        /\ After.tax = Before.tax
        /\ After.tip = Before.tip

\* an item of negative price added for Bob after an item without people
AddItemAppendsWitness ==
    /\ BatchApplied
    /\ Len(LastCalls) = 2
    /\ LastCalls[1].name = "add_item" /\ ~Has(LastCalls[1].args, "people")
    /\ LastCalls[2].name = "add_item" /\ LastCalls[2].args.price < 0
    /\ Len(After.items) = Len(Before.items) + 2
    /\ After.items[Len(After.items)].assignedTo = <<Bob>>
    /\ After.total = Before.total

\* C13: after a batch with update_tip the tip is the amount of its last
\* update_tip, and total has changed by that amount less the tip from before
\* the batch (and by the prices of the items the batch added): every
\* update_tip takes out the tip in effect just before it.
TipReplaces ==
    (BatchApplied /\ HasCallNamed({"update_tip"})) =>
        LET tips == CallsNamed({"update_tip"})
            amount == tips[Len(tips)].args.amount
        IN  /\ After.tip = amount
            /\ After.total = Before.total + (amount - Before.tip)
                                + AddedPrices(CallsNamed({"add_item"}))

\* a negative tip set after another tip of the same batch, over a tip of 3
TipReplacesWitness ==
    /\ BatchApplied
    /\ Len(LastCalls) = 2
    /\ LastCalls[1].name = "update_tip" /\ LastCalls[1].args.amount = 2
    /\ LastCalls[2].name = "update_tip" /\ LastCalls[2].args.amount = -1
    /\ Before.tip = 3
    /\ After.tip = -1
    /\ After.total = Before.total - 4

\* the entry remove_fixed_contribution is to remove: the one keyed by name,
\* else the first one whose key is name but for case, else none (0)
RemovedEntry(fixed, name) ==
    LET exact == {i \in 1..Len(fixed) : fixed[i].k = name}
        alike == {i \in 1..Len(fixed) : Lower(fixed[i].k) = Lower(name)}
    IN  IF exact # {} THEN Least(exact)
        ELSE IF alike # {} THEN Least(alike)
        ELSE 0

WithoutEntry(fixed, k) ==
    [i \in 1..(Len(fixed) - 1) |-> IF i < k THEN fixed[i] ELSE fixed[i + 1]]

WithoutMissingPairs(call) ==
    IF call.name = "assign_items"
    THEN AssignPairs(SelectSeq(call.args.assignments, LAMBDA pair : pair.itemName # Nowhere))
    ELSE call

\* a batch without the pairs and the split_item calls that name Nowhere
WithoutMisses(calls) ==
    LET kept == SelectSeq(calls, LAMBDA call :
                    ~(call.name = "split_item" /\ call.args.originalItemName = Nowhere))
    IN  [i \in 1..Len(kept) |-> WithoutMissingPairs(kept[i])]

HasMiss(calls) == WithoutMisses(calls) # calls

\* a split_item that names Nowhere, or an assign_items all of whose pairs do
OnlyMisses(call) ==
    \/ call.name = "split_item" /\ call.args.originalItemName = Nowhere
    \/ /\ call.name = "assign_items"
       /\ \A i \in 1..Len(call.args.assignments) :
                call.args.assignments[i].itemName = Nowhere

\* a receipt state but for the ids of its items
Content(rd) == [rd EXCEPT !.items = ShapesOf(rd.items)]

\* what a batch makes of the state given to the last batch
ExpectedOf(calls) ==
    LET upd == Updater(heap, prevData, calls, 0,
                       [i \in 1..BatchNowCalls([toolCalls |-> calls]) |-> 0])
    IN  View(upd.h, upd.ref)

\* what the last batch without its misses makes of it
Expected == ExpectedOf(WithoutMisses(LastCalls))

\* C15: a pair of assign_items or a split_item whose name resolves to no
\* item changes nothing, and the other pairs and commands of the batch are
\* applied as they are without it.
MissesSkipped ==
    (BatchApplied /\ HasMiss(LastCalls)) =>
        /\ Content(After) = Content(Expected)
        /\ (\A i \in 1..Len(LastCalls) : OnlyMisses(LastCalls[i])) => After = Before

\* a pair that misses before a pair that assigns an item to Bob, in a batch
\* with a split_item that misses
MissesSkippedWitness ==
    /\ BatchApplied
    /\ Len(LastCalls) = 2
    /\ LastCalls[1] = SplitCall(Nowhere, <<HalfCola, HalfTea>>)
    /\ LastCalls[2] = AssignPairs(<<Pair(Nowhere, <<Alice>>), Pair(Cola, <<Bob>>)>>)
    /\ After # Before
    /\ \E i \in 1..Len(After.items) :
            After.items[i].assignedTo = <<Bob>> /\ Before.items[i].assignedTo # <<Bob>>
    /\ Len(After.items) = Len(Before.items)

\* a command that lacks a field its handler reads
Malformed(call) ==
    \/ /\ call.name = "assign_items"
       /\ \/ ~Has(call.args, "assignments")
          \/ \E i \in 1..Len(call.args.assignments) :
                    ~Has(call.args.assignments[i], "itemName")
    \/ /\ call.name = "split_item"
       /\ ~(Has(call.args, "originalItemName") /\ Has(call.args, "newItems"))

HasMalformed(calls) == \E i \in 1..Len(calls) : Malformed(calls[i])

\* a batch without its malformed commands
WellFormed(calls) == SelectSeq(calls, LAMBDA call : ~Malformed(call))

\* C16: a malformed command is dropped: the batch raises no exception, and
\* the state after it is what the remaining commands of the batch make of the
\* state before it.
MalformedDropped ==
    (BatchApplied /\ HasMalformed(LastCalls)) =>
        /\ ~lastOp.threw
        /\ Mounted
        /\ Content(After) = Content(ExpectedOf(WellFormed(LastCalls)))

\* the last batch was assign_items with nobody for every item by its name
ClearedAll == BatchApplied /\ LastCalls = <<ClearAll(Before)>>

\* C21: after assign_items with an empty people list for every item, one
\* pair per item addressed by the item's name, the summary is empty and
\* unassignedTotal is the sum of the prices of the items.
ClearEmptiesSummary ==
    ClearedAll =>
        /\ summary = Some(<<>>)
        /\ unassignedTotal = Some(PriceSum(Before.items))

\* the item of Before that the split_item of the last batch replaced, or 0
Original == SplitTarget(NamesOf(Before.items), LastCalls[1].args.originalItemName)
Parts == LastCalls[1].args.newItems
PricesOf(items) == [i \in 1..Len(items) |-> items[i].price]

\* the last batch replaced an assigned item by parts whose prices sum to
\* its price and assigned every part, by its name, to the people of the item
SplitAndAssigned ==
    /\ BatchApplied
    /\ Len(LastCalls) = 2
    /\ LastCalls[1].name = "split_item"
    /\ Original # 0
    /\ PriceSum(Parts) = Before.items[Original].price
    /\ Before.items[Original].assignedTo # <<>>
    /\ LastCalls[2] = AssignParts(Parts, Before.items[Original].assignedTo)

\* C22: split_item with parts whose prices sum to the price of the item,
\* followed by assign_items of every part to the people of the item, leaves
\* every person's subtotalOwed as it was; subtotal, tax, tip and total are
\* unchanged and the parts stand in order where the item was.
SplitPreservesShares ==
    SplitAndAssigned =>
        /\ \A name \in {Alice, Bob} :
                RawSubtotal(After.items, name) = RawSubtotal(Before.items, name)
        /\ After.subtotal = Before.subtotal /\ After.tax = Before.tax
        /\ After.tip = Before.tip /\ After.total = Before.total
        /\ NamesOf(After.items) = Splice(NamesOf(Before.items), Original, NamesOf(Parts))
        /\ PricesOf(After.items) = Splice(PricesOf(Before.items), Original, PricesOf(Parts))

\* C23: in every receipt state no assignedTo holds a name twice.
AssigneesDistinct ==
    receiptData # NoRef =>
        \A i \in 1..Len(View(heap, receiptData).items) :
            Distinct(View(heap, receiptData).items[i].assignedTo)

RECURSIVE OneByOne(_, _, _)
\* the commands applied one at a time, each as a batch of its own to the
\* state the one before produced
OneByOne(h, ref, calls) ==
    IF calls = <<>> THEN View(h, ref)
    ELSE LET upd == Updater(h, ref, <<calls[1]>>, 0, [i \in 1..NowCalls(calls[1]) |-> 0])
         IN  OneByOne(upd.h, upd.ref, Tail(calls))

\* both commands set the fixed contribution of one name
SetsTwice ==
    /\ Len(LastCalls) = 2
    /\ \A i \in 1..2 : LastCalls[i].name = "set_fixed_contribution"
    /\ LastCalls[1].args.name = LastCalls[2].args.name

\* C24: a batch produces the state that its commands produce one after the
\* other in the order received, each applied to the result of the one
\* before; of two set_fixed_contribution for one name the later one stays.
AppliedInOrder ==
    BatchApplied =>
        /\ Content(After) = Content(OneByOne(heap, prevData, LastCalls))
        /\ SetsTwice =>
                <<LastCalls[2].args.name, LastCalls[2].args.amount>> \in Entries(After)

\* split_item, then assign_items by the name the original had: it falls on
\* the new part of that name, and the original is gone
AppliedInOrderWitness ==
    /\ BatchApplied
    /\ LastCalls = <<SplitCall(Cola, <<HalfCola, HalfTea>>), AssignCall(Cola, <<Alice, Bob>>)>>
    /\ NamesOf(Before.items) = <<Cola>>
    /\ ShapesOf(After.items) =
            <<[name |-> Cola, price |-> 4, assignedTo |-> <<Alice, Bob>>],
              [name |-> Tea, price |-> 6, assignedTo |-> <<>>]>>
    /\ Content(After) # Content(ExpectedOf(<<LastCalls[2], LastCalls[1]>>))

\* the field of an extraction result, or what stands for it when missing
FieldOr(rawData, f, default) == IF Has(rawData, f) THEN rawData[f] ELSE default

\* C25: hydration gives every item an id of its own and an empty assignedTo,
\* keeps the order, names and prices of the result, takes 0 for each of
\* subtotal, tax, tip, total that is missing and "$" for a missing
\* currencySymbol, and sets no discount and no fixed contribution.
HydrationAsStated ==
    lastOp.op = "parsed" =>
        LET rawData == lastOp.rawData
            rawItems == FieldOr(rawData, "items", <<>>)
            rd == View(heap, receiptData)
        IN  /\ Len(rd.items) = Len(rawItems)
            /\ \A i \in 1..Len(rd.items) :
                    /\ rd.items[i].name = rawItems[i].name
                    /\ rd.items[i].price = rawItems[i].price
                    /\ rd.items[i].assignedTo = <<>>
                    /\ \A j \in 1..Len(rd.items) : i # j => rd.items[i].id # rd.items[j].id
            /\ rd.subtotal = FieldOr(rawData, "subtotal", 0)
            /\ rd.tax = FieldOr(rawData, "tax", 0)
            /\ rd.tip = FieldOr(rawData, "tip", 0)
            /\ rd.total = FieldOr(rawData, "total", 0)
            /\ rd.currencySymbol = FieldOr(rawData, "currencySymbol", "$")
            /\ rd.discount = None
            /\ rd.fixedContributions = None

\* two items of one name hydrated within one millisecond, from a result
\* without tax, tip and currencySymbol
HydrationAsStatedWitness ==
    /\ lastOp.op = "parsed"
    /\ DOMAIN lastOp.rawData = {"items", "subtotal", "total"}
    /\ NamesOf(lastOp.rawData.items) = <<Cola, Cola>>
    /\ now = 0
    /\ View(heap, receiptData).currencySymbol = "$"
    /\ View(heap, receiptData).tip = 0

\* C26: at most one chat request is in flight, and only while the busy flag
\* is set; the receipt the allocation is computed from after a batch is the
\* state the whole batch returned.
BatchesSerialized ==
    /\ chatInFlight <= 1
    /\ chatInFlight = 1 => chatProcessing
    /\ (BatchApplied /\ props # None) => props[1] = After

\* the second message of a session awaits its reply, after the first batch
\* was applied
BatchesSerializedWitness ==
    /\ sends = 2
    /\ chatInFlight = 1
    /\ chatProcessing
    /\ props # None
    /\ props[1].tip = 2

\* a reply arrives
ReplyStep == chatInFlight' < chatInFlight

\* C27: a reply that arrives when the receipt of its request has been
\* replaced by a new upload (the step before it was the hydration of another
\* file, so the message was sent before that) changes neither the new
\* receipt nor the state of the application.
LateReplyIgnored ==
    [][(ReplyStep /\ lastOp.op = "parsed") => (props' = props /\ appState' = appState)]_vars

\* total - subtotal - tip, the amount distributed as tax
TaxGap(rd) == rd.total - rd.subtotal - rd.tip

\* the extraction result a receipt state stems from: merchantName is kept by
\* every command and tells the results apart
Origin(rd) ==
    CHOOSE rawData \in RawResults :
        rd.merchantName = IF Has(rawData, "merchantName") THEN Some(rawData.merchantName)
                          ELSE None

HydratedGap(rawData) ==
    FieldOr(rawData, "total", 0) - FieldOr(rawData, "subtotal", 0) - FieldOr(rawData, "tip", 0)

\* C28: total - subtotal - tip of a receipt state is what it was in the
\* hydrated state, and no batch changes it.
TaxGapInvariant ==
    /\ receiptData # NoRef =>
            TaxGap(View(heap, receiptData)) = HydratedGap(Origin(View(heap, receiptData)))
    /\ BatchApplied => TaxGap(After) = TaxGap(Before)

\* a batch that changed subtotal, tip and total of a receipt with a tax
\* gap of 3
TaxGapInvariantWitness ==
    /\ BatchApplied
    /\ After.subtotal # Before.subtotal
    /\ After.tip # Before.tip
    /\ After.total # Before.total
    /\ Before.tip # 0
    /\ TaxGap(After) = 3

\* C29: whenever the busy flag is set it is eventually cleared.
BusyClears == chatProcessing ~> ~chatProcessing

\* C30: Clear Assignments empties every assignedTo, removes the fixed
\* contributions and the discount, and keeps the items with their ids, names,
\* prices and order, subtotal, tax, tip, total, merchantName and
\* currencySymbol; done again it changes nothing, and without a receipt it
\* leaves none.
ClearAssignmentsAsStated ==
    /\ ClearUpdater(heap, NoRef).ref = NoRef
    /\ lastOp.op = "clear" =>
            LET b == prevSnap[1]
                a == View(heap, receiptData)
                again == ClearUpdater(heap, receiptData)
            IN  /\ a.items = [i \in 1..Len(b.items) |-> [b.items[i] EXCEPT !.assignedTo = <<>>]]
                /\ FixedOf(a) = <<>>
                /\ a.discount = None
                /\ a.subtotal = b.subtotal /\ a.tax = b.tax /\ a.tip = b.tip
                /\ a.total = b.total
                /\ a.merchantName = b.merchantName
                /\ a.currencySymbol = b.currencySymbol
                /\ View(again.h, again.ref) = a

\* cleared: a receipt with assigned items, two fixed contributions, a
\* discount and a tip
ClearAssignmentsAsStatedWitness ==
    /\ lastOp.op = "clear"
    /\ \E i \in 1..Len(prevSnap[1].items) : prevSnap[1].items[i].assignedTo # <<>>
    /\ Len(FixedOf(prevSnap[1])) = 2
    /\ prevSnap[1].discount # None
    /\ prevSnap[1].tip = 3
    /\ summary = Some(<<>>)

====
